---- MODULE Spec2Model ----
(***************************************************************************)
(* Model of the iter_to_array crate (src/src/lib.rs): collecting an        *)
(* iterator into a fixed-size array [T; N] with the strict, default, pad   *)
(* and padding-closure policies, and the ChunksIter adaptor built on       *)
(* take_array_partial.                                                     *)
(*                                                                         *)
(* The source iterator is a finite sequence src together with the number   *)
(* pos of elements already taken from it; polling it past its end reports  *)
(* None again (the ranges and vec iterators of the crate's tests).         *)
(***************************************************************************)
EXTENDS Integers, Sequences, FiniteSets, TLC

\* ---- bounds of the model ------------------------------------------------
MaxN == 3
MaxLen == 4
MaxElem == 2
\* cap on the number of chunks recorded from one ChunksIter
MaxChunks == MaxLen + 1

Elems == 1..MaxElem
Sizes == 0..MaxN
Sources == UNION {[1..l -> Elems] : l \in 0..MaxLen}

\* <i32 as Default>::default(), the value Default::default() yields
DefaultVal == 0
\* the pad arguments tried: one equal to a source element, one that no
\* source yields
PadVals == {1, MaxElem + 1}

VARIABLES
    src,        \* the elements the source iterator yields, in order
    pos,        \* how many of them have been taken out of the iterator
    mode,       \* "iter": the iterator is held by the caller; "consumed":
                \* it was moved into a to_array* call; "chunks": it was
                \* moved into a ChunksIter
    call,       \* the last call: its name, its N, its pad, pos before it
    res,        \* what the last call returned
    polls,      \* calls of self.next() made by the last call
    padCalls,   \* invocations of the padding closure made by the last call
    dropped,    \* the values the last call released, in release order
    ub,         \* the last call read or released an uninitialized slot
    staging,    \* the staging buffer res of the last call at each point of
                \* its strict fill loop: on entry to every iteration and
                \* when the loop was left
    chunkN,     \* const N of the ChunksIter
    chunkStart, \* pos when the iterator was moved into the ChunksIter
    padding,    \* state of the ChunksIter's FnMut closure: its invocations
    chunks,     \* the arrays ChunksIter::next has returned in Some, in order
    done        \* ChunksIter::next has returned None

vars == <<src, pos, mode, call, res, polls, padCalls, dropped, ub, staging,
          chunkN, chunkStart, padding, chunks, done>>

\* ---- values ---------------------------------------------------------------
\* MaybeUninit<T>: a slot either holds a value or is uninitialized
Uninit == [init |-> FALSE, val |-> DefaultVal]
New(x) == [init |-> TRUE, val |-> x]

\* let mut res: [MaybeUninit<T>; N] = MaybeUninit::uninit().assume_init()
UninitArray(n) == [i \in 1..n |-> Uninit]

\* Option<usize> error_index: None is -1
NoIndex == 0 - 1

\* the values of ToArrayError, Result<[T; N], ToArrayError>,
\* MaybePartial<[T; N]>, [T; N] and Option<[T; N]> in one record shape
Ret(tag, arr, a, b) == [tag |-> tag, arr |-> arr, a |-> a, b |-> b]
Ok(arr) == Ret("Ok", arr, 0, 0)
TooShort(i, n) == Ret("TooShort", <<>>, i, n)
TooLong(n) == Ret("TooLong", <<>>, n, 0)
Full(arr) == Ret("Full", arr, 0, 0)
Partial(arr, i) == Ret("Partial", arr, i, 0)
Empty == Ret("Empty", <<>>, 0, 0)
Array(arr) == Ret("Array", arr, 0, 0)
SomeChunk(arr) == Ret("Some", arr, 0, 0)
None == Ret("None", <<>>, 0, 0)
NoCall == Ret("none", <<>>, 0, 0)

\* ---- the source iterator ------------------------------------------------
\* self.next() with p elements already taken
SrcNext(p) ==
    IF p < Len(src)
    THEN [some |-> TRUE, val |-> src[p + 1], pos |-> p + 1]
    ELSE [some |-> FALSE, val |-> DefaultVal, pos |-> p]

\* ---- take_array -----------------------------------------------------------
\* FillLoop stopping one slot early: the last slot is left uninitialized
RECURSIVE FillLoopOffByOne(_, _, _, _, _)
FillLoopOffByOne(i, n, buf, p, k) ==
    IF i >= n - 1
    THEN [buf |-> buf, error_index |-> NoIndex, pos |-> p, polls |-> k,
          trace |-> <<buf>>]
    ELSE LET x == SrcNext(p) IN
         IF x.some
         THEN LET r == FillLoopOffByOne(i + 1, n,
                                        [buf EXCEPT ![i + 1] = New(x.val)],
                                        x.pos, k + 1)
              IN [r EXCEPT !.trace = <<buf>> \o @]
         ELSE [buf |-> buf, error_index |-> i, pos |-> p, polls |-> k + 1,
               trace |-> <<buf>>]

\* FillLoop without the break: after a None it goes on polling for every
\* slot that is left, and error_index ends as the last slot polled
RECURSIVE FillLoopNoBreak(_, _, _, _, _)
FillLoopNoBreak(i, n, buf, p, k) ==
    IF i >= n
    THEN [buf |-> buf, error_index |-> NoIndex, pos |-> p, polls |-> k,
          trace |-> <<buf>>]
    ELSE LET x == SrcNext(p) IN
         IF x.some
         THEN LET r == FillLoopNoBreak(i + 1, n,
                                       [buf EXCEPT ![i + 1] = New(x.val)],
                                       x.pos, k + 1)
              IN [r EXCEPT !.trace = <<buf>> \o @]
         ELSE [buf |-> buf, error_index |-> n - 1, pos |-> p,
               polls |-> k + (n - i), trace |-> [j \in 1..(n - i) |-> buf]]

\* FillLoop polling the source before it tests whether a slot is left
RECURSIVE FillLoopPollFirst(_, _, _, _, _)
FillLoopPollFirst(i, n, buf, p, k) ==
    LET x == SrcNext(p) IN
    IF ~x.some
    THEN [buf |-> buf, error_index |-> i, pos |-> p, polls |-> k + 1,
          trace |-> <<buf>>]
    ELSE IF i >= n
    THEN [buf |-> buf, error_index |-> NoIndex, pos |-> x.pos,
          polls |-> k + 1, trace |-> <<buf>>]
    ELSE LET r == FillLoopPollFirst(i + 1, n,
                                    [buf EXCEPT ![i + 1] = New(x.val)],
                                    x.pos, k + 1)
         IN [r EXCEPT !.trace = <<buf>> \o @]

\* the fill loop: for (i, el) in res.iter_mut().enumerate(), slot i (0-based)
\* is buf[i + 1]; the loop of take_array_partial (lines 86-93) is the same text.
\* trace is res as it was on entry to each iteration and on leaving the loop
RECURSIVE FillLoop(_, _, _, _, _)
FillLoop(i, n, buf, p, k) ==
    IF i >= n
    THEN [buf |-> buf, error_index |-> NoIndex, pos |-> p, polls |-> k,
          trace |-> <<buf>>]
    ELSE LET x == SrcNext(p) IN
         IF x.some
         THEN LET r == FillLoop(i + 1, n, [buf EXCEPT ![i + 1] = New(x.val)],
                           x.pos, k + 1)
              IN [r EXCEPT !.trace = <<buf>> \o @]
         ELSE [buf |-> buf, error_index |-> i, pos |-> p, polls |-> k + 1,
               trace |-> <<buf>>]

\* mem::transmute_copy(&res): the slots read as values
TransmuteCopy(buf) == [i \in 1..Len(buf) |-> buf[i].val]

\* a read or release of an uninitialized slot among slots lo..hi (1-based)
TouchesUninit(buf, lo, hi) == \E i \in lo..hi : ~buf[i].init

\* DropPrefix over res[..=i]: one slot too many
DropPrefixInclusive(buf, i) == [j \in 1..(i + 1) |-> buf[j].val]

\* for el in &mut res[..i] { el.assume_init_drop() }
DropPrefix(buf, i) == [j \in 1..i |-> buf[j].val]

\* TakeArrayRet without the loop that drops the initialized elements
TakeArrayRetNoDrop(f, n) ==
    IF f.error_index # NoIndex
    THEN [ret |-> TooShort(f.error_index, n),
          dropped |-> <<>>,
          ub |-> FALSE]
    ELSE [ret |-> Ok(TransmuteCopy(f.buf)),
          dropped |-> <<>>,
          ub |-> TouchesUninit(f.buf, 1, n)]

\* TakeArrayRet with the payload of TooShort in the wrong order
TakeArrayRetSwapped(f, n) ==
    IF f.error_index # NoIndex
    THEN [ret |-> TooShort(n, f.error_index),
          dropped |-> DropPrefix(f.buf, f.error_index),
          ub |-> TouchesUninit(f.buf, 1, f.error_index)]
    ELSE [ret |-> Ok(TransmuteCopy(f.buf)),
          dropped |-> <<>>,
          ub |-> TouchesUninit(f.buf, 1, n)]

\* the tail of take_array: what it returns, what it releases
TakeArrayRet(f, n) ==
    IF f.error_index # NoIndex
    THEN [ret |-> TooShort(f.error_index, n),
          dropped |-> DropPrefix(f.buf, f.error_index),
          ub |-> TouchesUninit(f.buf, 1, f.error_index)]
    ELSE [ret |-> Ok(TransmuteCopy(f.buf)),
          dropped |-> <<>>,
          ub |-> TouchesUninit(f.buf, 1, n)]

\* take_array looking one element ahead once the array is full
take_array_peek(n, p) ==
    LET f == FillLoop(0, n, UninitArray(n), p, 0)
        t == TakeArrayRet(f, n)
        x == SrcNext(f.pos)
        full == f.error_index = NoIndex
    IN [ret |-> t.ret,
        pos |-> IF full THEN x.pos ELSE f.pos,
        polls |-> IF full THEN f.polls + 1 ELSE f.polls,
        dropped |-> t.dropped, ub |-> t.ub, trace |-> f.trace]

\* take_array::<n> run on the iterator with p elements taken
take_array(n, p) ==
    LET f == FillLoop(0, n, UninitArray(n), p, 0)
        t == TakeArrayRet(f, n)
    IN [ret |-> t.ret, pos |-> f.pos, polls |-> f.polls,
        dropped |-> t.dropped, ub |-> t.ub, trace |-> f.trace]

Call(op, n, pad) == [op |-> op, n |-> n, pad |-> pad, pos0 |-> pos]

ChunkVars == <<chunkN, chunkStart, padding, chunks, done>>

TakeArray ==
    /\ mode = "iter"
    /\ \E n \in Sizes :
         LET t == take_array(n, pos) IN
         /\ call' = Call("take_array", n, DefaultVal)
         /\ res' = t.ret
         /\ pos' = t.pos
         /\ polls' = t.polls
         /\ dropped' = t.dropped
         /\ ub' = t.ub
         /\ staging' = t.trace
    /\ padCalls' = 0
    /\ UNCHANGED <<src, mode, ChunkVars>>

\* ---- to_array -------------------------------------------------------------
\* ToArrayRet without the extra poll: whatever take_array returned
ToArrayRetNoCheck(t, x, n) ==
    [ret |-> t.ret, pos |-> t.pos, polls |-> t.polls,
     dropped |-> t.dropped, ub |-> t.ub, trace |-> t.trace]

\* the tail of to_array: t is what self.take_array() returned, x the result
\* of the self.next() of the match (polled only when take_array returned Ok)
ToArrayRet(t, x, n) ==
    IF t.ret.tag # "Ok"
    THEN [ret |-> t.ret, pos |-> t.pos, polls |-> t.polls,
          dropped |-> t.dropped, ub |-> t.ub, trace |-> t.trace]
    ELSE IF x.some
    THEN [ret |-> TooLong(n), pos |-> x.pos, polls |-> t.polls + 1,
          dropped |-> <<x.val>> \o t.ret.arr, ub |-> t.ub,
          trace |-> t.trace]
    ELSE [ret |-> t.ret, pos |-> x.pos, polls |-> t.polls + 1,
          dropped |-> t.dropped, ub |-> t.ub, trace |-> t.trace]

to_array(n, p) ==
    LET t == take_array(n, p) IN ToArrayRet(t, SrcNext(t.pos), n)

ToArray ==
    /\ mode = "iter"
    /\ \E n \in Sizes :
         LET t == to_array(n, pos) IN
         /\ call' = Call("to_array", n, DefaultVal)
         /\ res' = t.ret
         /\ pos' = t.pos
         /\ polls' = t.polls
         /\ dropped' = t.dropped
         /\ ub' = t.ub
         /\ staging' = t.trace
    /\ mode' = "consumed"
    /\ padCalls' = 0
    /\ UNCHANGED <<src, ChunkVars>>

\* ---- take_array_partial ---------------------------------------------------
\* the FnMut padding closure, as a generator: its k-th invocation (k counted
\* from 0) returns -(k + 1), so results of different invocations differ and
\* the first one is the -1 of the crate's tests
PadGen(k) == 0 - (k + 1)

\* PadFill invoking the closure once and storing that result in every slot
PadFillOnce(j, n, buf, k) ==
    IF j >= n
    THEN [buf |-> buf, padding |-> k]
    ELSE [buf |-> [s \in 1..n |-> IF s > j THEN New(PadGen(k)) ELSE buf[s]],
          padding |-> k + 1]

\* for el in &mut res[i..] { *el = MaybeUninit::new(padding()) }, j the
\* 0-based slot reached and k the invocations of the closure so far
RECURSIVE PadFill(_, _, _, _)
PadFill(j, n, buf, k) ==
    IF j >= n
    THEN [buf |-> buf, padding |-> k]
    ELSE PadFill(j + 1, n, [buf EXCEPT ![j + 1] = New(PadGen(k))], k + 1)

\* PartialRet without the i == 0 case: an all-padding Partial
PartialRetNoEmpty(f, n, k0) ==
    IF f.error_index # NoIndex
    THEN LET g == PadFill(f.error_index, n, f.buf, k0) IN
         [ret |-> Partial(TransmuteCopy(g.buf), f.error_index),
          padding |-> g.padding,
          ub |-> TouchesUninit(g.buf, 1, n)]
    ELSE [ret |-> Full(TransmuteCopy(f.buf)), padding |-> k0,
          ub |-> TouchesUninit(f.buf, 1, n)]

\* PartialRet running the padding loop over the whole array before it tests
\* i == 0
PartialRetPadsEmpty(f, n, k0) ==
    IF f.error_index # NoIndex
    THEN IF f.error_index = 0
         THEN [ret |-> Empty, padding |-> PadFill(0, n, f.buf, k0).padding,
               ub |-> FALSE]
         ELSE LET g == PadFill(f.error_index, n, f.buf, k0) IN
              [ret |-> Partial(TransmuteCopy(g.buf), f.error_index),
               padding |-> g.padding,
               ub |-> TouchesUninit(g.buf, 1, n)]
    ELSE [ret |-> Full(TransmuteCopy(f.buf)), padding |-> k0,
          ub |-> TouchesUninit(f.buf, 1, n)]

\* the tail of take_array_partial; k0 is the closure's state on entry
PartialRet(f, n, k0) ==
    IF f.error_index # NoIndex
    THEN IF f.error_index = 0
         THEN [ret |-> Empty, padding |-> k0, ub |-> FALSE]
         ELSE LET g == PadFill(f.error_index, n, f.buf, k0) IN
              [ret |-> Partial(TransmuteCopy(g.buf), f.error_index),
               padding |-> g.padding,
               ub |-> TouchesUninit(g.buf, 1, n)]
    ELSE [ret |-> Full(TransmuteCopy(f.buf)), padding |-> k0,
          ub |-> TouchesUninit(f.buf, 1, n)]

take_array_partial(n, p, k0) ==
    LET f == FillLoop(0, n, UninitArray(n), p, 0)
        t == PartialRet(f, n, k0)
    IN [ret |-> t.ret, pos |-> f.pos, polls |-> f.polls,
        padding |-> t.padding, padCalls |-> t.padding - k0,
        dropped |-> <<>>, ub |-> t.ub, trace |-> f.trace]

\* a direct call, given a closure that has not been invoked yet
TakeArrayPartial ==
    /\ mode = "iter"
    /\ \E n \in Sizes :
         LET t == take_array_partial(n, pos, 0) IN
         /\ call' = Call("take_array_partial", n, DefaultVal)
         /\ res' = t.ret
         /\ pos' = t.pos
         /\ polls' = t.polls
         /\ padCalls' = t.padCalls
         /\ dropped' = t.dropped
         /\ ub' = t.ub
         /\ staging' = t.trace
    /\ UNCHANGED <<src, mode, ChunkVars>>

\* ---- take_array_default, take_array_pad ---------------------------------
\* FillOrElse that stops polling at the first None and fills the slots that
\* are left without asking the source again
FillOrElseStopsPolling(i, n, buf, p, k, fallback) ==
    LET left == Len(src) - p
        slots == n - i
    IN [buf |-> [s \in 1..n |->
                    IF s <= i THEN buf[s]
                    ELSE New(IF s - i <= left THEN src[p + s - i]
                             ELSE fallback)],
        pos |-> IF left >= slots THEN p + slots ELSE Len(src),
        polls |-> IF left >= slots THEN k + slots ELSE k + left + 1]

\* for el in &mut res { *el = MaybeUninit::new(self.next().unwrap_or_else(..)) }
\* with fallback the value the closure yields: Default::default() in
\* take_array_default, pad.clone() in take_array_pad (lines 162-164)
RECURSIVE FillOrElse(_, _, _, _, _, _)
FillOrElse(i, n, buf, p, k, fallback) ==
    IF i >= n
    THEN [buf |-> buf, pos |-> p, polls |-> k]
    ELSE LET x == SrcNext(p) IN
         FillOrElse(i + 1, n,
                    [buf EXCEPT ![i + 1] =
                         New(IF x.some THEN x.val ELSE fallback)],
                    x.pos, k + 1, fallback)

take_array_default(n, p) ==
    LET f == FillOrElse(0, n, UninitArray(n), p, 0, DefaultVal) IN
    [ret |-> Array(TransmuteCopy(f.buf)), pos |-> f.pos, polls |-> f.polls,
     dropped |-> <<>>, ub |-> TouchesUninit(f.buf, 1, n)]

\* take_array_pad filling with Default::default() as take_array_default does
take_array_pad_default(n, p, pad) ==
    LET f == FillOrElse(0, n, UninitArray(n), p, 0, DefaultVal) IN
    [ret |-> Array(TransmuteCopy(f.buf)), pos |-> f.pos, polls |-> f.polls,
     dropped |-> <<pad>>, ub |-> TouchesUninit(f.buf, 1, n)]

\* pad is owned by the call and released when it returns
take_array_pad(n, p, pad) ==
    LET f == FillOrElse(0, n, UninitArray(n), p, 0, pad) IN
    [ret |-> Array(TransmuteCopy(f.buf)), pos |-> f.pos, polls |-> f.polls,
     dropped |-> <<pad>>, ub |-> TouchesUninit(f.buf, 1, n)]

TakeArrayDefault ==
    /\ mode = "iter"
    /\ \E n \in Sizes :
         LET t == take_array_default(n, pos) IN
         /\ call' = Call("take_array_default", n, DefaultVal)
         /\ res' = t.ret
         /\ pos' = t.pos
         /\ polls' = t.polls
         /\ dropped' = t.dropped
         /\ ub' = t.ub
         /\ staging' = <<>>
    /\ padCalls' = 0
    /\ UNCHANGED <<src, mode, ChunkVars>>

TakeArrayPad ==
    /\ mode = "iter"
    /\ \E n \in Sizes, pad \in PadVals :
         LET t == take_array_pad(n, pos, pad) IN
         /\ call' = Call("take_array_pad", n, pad)
         /\ res' = t.ret
         /\ pos' = t.pos
         /\ polls' = t.polls
         /\ dropped' = t.dropped
         /\ ub' = t.ub
         /\ staging' = <<>>
    /\ padCalls' = 0
    /\ UNCHANGED <<src, mode, ChunkVars>>

\* ---- to_array_default, to_array_pad -------------------------------------
\* ToPaddedRet with the arms of the match exchanged
ToPaddedRetExchanged(t, x, n) ==
    IF ~x.some
    THEN [ret |-> TooLong(n), pos |-> x.pos, polls |-> t.polls + 1,
          dropped |-> t.ret.arr \o t.dropped, ub |-> t.ub]
    ELSE [ret |-> Ok(t.ret.arr), pos |-> x.pos, polls |-> t.polls + 1,
          dropped |-> <<x.val>> \o t.dropped, ub |-> t.ub]

\* the match of to_array_default (and, with the same text, of to_array_pad,
\* lines 172-175): t is what the take_ call returned, x the extra self.next()
ToPaddedRet(t, x, n) ==
    IF x.some
    THEN [ret |-> TooLong(n), pos |-> x.pos, polls |-> t.polls + 1,
          dropped |-> <<x.val>> \o t.ret.arr \o t.dropped, ub |-> t.ub]
    ELSE [ret |-> Ok(t.ret.arr), pos |-> x.pos, polls |-> t.polls + 1,
          dropped |-> t.dropped, ub |-> t.ub]

to_array_default(n, p) ==
    LET t == take_array_default(n, p) IN ToPaddedRet(t, SrcNext(t.pos), n)

to_array_pad(n, p, pad) ==
    LET t == take_array_pad(n, p, pad) IN ToPaddedRet(t, SrcNext(t.pos), n)

ToArrayDefault ==
    /\ mode = "iter"
    /\ \E n \in Sizes :
         LET t == to_array_default(n, pos) IN
         /\ call' = Call("to_array_default", n, DefaultVal)
         /\ res' = t.ret
         /\ pos' = t.pos
         /\ polls' = t.polls
         /\ dropped' = t.dropped
         /\ ub' = t.ub
         /\ staging' = <<>>
    /\ mode' = "consumed"
    /\ padCalls' = 0
    /\ UNCHANGED <<src, ChunkVars>>

ToArrayPad ==
    /\ mode = "iter"
    /\ \E n \in Sizes, pad \in PadVals :
         LET t == to_array_pad(n, pos, pad) IN
         /\ call' = Call("to_array_pad", n, pad)
         /\ res' = t.ret
         /\ pos' = t.pos
         /\ polls' = t.polls
         /\ dropped' = t.dropped
         /\ ub' = t.ub
         /\ staging' = <<>>
    /\ mode' = "consumed"
    /\ padCalls' = 0
    /\ UNCHANGED <<src, ChunkVars>>

\* ---- ChunksIter -----------------------------------------------------------
\* Chunks::chunks: the iterator and the padding closure move into a ChunksIter
Chunks ==
    /\ mode = "iter"
    /\ \E n \in Sizes :
         /\ call' = Call("chunks", n, DefaultVal)
         /\ chunkN' = n
    /\ mode' = "chunks"
    /\ chunkStart' = pos
    /\ padding' = 0
    /\ chunks' = <<>>
    /\ done' = FALSE
    /\ res' = NoCall
    /\ polls' = 0
    /\ padCalls' = 0
    /\ dropped' = <<>>
    /\ ub' = FALSE
    /\ staging' = <<>>
    /\ UNCHANGED <<src, pos>>

\* ChunksNextRet ending the sequence at a Partial instead of returning it
ChunksNextRetDropPartial(m) ==
    IF m.tag = "Full" THEN SomeChunk(m.arr) ELSE None

\* the match of ChunksIter::next on what take_array_partial returned
ChunksNextRet(m) ==
    IF m.tag = "Empty" THEN None ELSE SomeChunk(m.arr)

\* ChunksIter::next; the chunks it returns are recorded up to MaxChunks
ChunksNext ==
    /\ mode = "chunks"
    /\ Len(chunks) < MaxChunks
    /\ LET t == take_array_partial(chunkN, pos, padding)
           r == ChunksNextRet(t.ret)
       IN /\ call' = Call("next", chunkN, DefaultVal)
          /\ res' = r
          /\ pos' = t.pos
          /\ polls' = t.polls
          /\ padCalls' = t.padCalls
          /\ padding' = t.padding
          /\ dropped' = t.dropped
          /\ ub' = t.ub
          /\ staging' = t.trace
          /\ chunks' = IF r.tag = "Some" THEN Append(chunks, r.arr) ELSE chunks
          /\ done' = (done \/ r.tag = "None")
    /\ UNCHANGED <<src, mode, chunkN, chunkStart>>

\* ---- the state machine ----------------------------------------------------
Init ==
    /\ src \in Sources
    /\ pos = 0
    /\ mode = "iter"
    /\ call = [op |-> "none", n |-> 0, pad |-> DefaultVal, pos0 |-> 0]
    /\ res = NoCall
    /\ polls = 0
    /\ padCalls = 0
    /\ dropped = <<>>
    /\ ub = FALSE
    /\ staging = <<>>
    /\ chunkN = 0
    /\ chunkStart = 0
    /\ padding = 0
    /\ chunks = <<>>
    /\ done = FALSE

Next ==
    \/ TakeArray
    \/ ToArray
    \/ TakeArrayPartial
    \/ TakeArrayDefault
    \/ ToArrayDefault
    \/ TakeArrayPad
    \/ ToArrayPad
    \/ Chunks
    \/ ChunksNext

Spec == Init /\ [][Next]_vars

\* ---- what the last call was given ---------------------------------------
\* the number of elements the source had left to yield when the call began
Rem0 == Len(src) - call.pos0
\* the k elements the source yields first, counted from where the call began
Window(k) == SubSeq(src, call.pos0 + 1, call.pos0 + k)
\* the array a padding conversion owes: the source's elements in order, then
\* the fill value in every slot the source could not fill
Padded(n, fill) ==
    [i \in 1..n |-> IF i <= Rem0 THEN src[call.pos0 + i] ELSE fill]
\* the fill value of the last default or pad conversion
FillVal ==
    IF call.op \in {"take_array_pad", "to_array_pad"}
    THEN call.pad ELSE DefaultVal

\* ---- C1 -------------------------------------------------------------------
\* C1: on a source that yields exactly N elements, take_array::<N> and
\* to_array::<N> return Ok(array) and array[i] is the i-th element the source
\* yielded, for every 0 <= i < N (N = 0 included).
C1_ExactLengthOk ==
    (call.op \in {"take_array", "to_array"} /\ Rem0 = call.n)
        => /\ res.tag = "Ok"
           /\ Len(res.arr) = call.n
           /\ \A i \in 0..(call.n - 1) : res.arr[i + 1] = src[call.pos0 + i + 1]

C1_Witness ==
    /\ call.op = "to_array"
    /\ Rem0 = call.n
    /\ call.n >= 2
    /\ res.tag = "Ok"
    /\ res.arr[1] # res.arr[2]

\* ---- C2 -------------------------------------------------------------------
\* C2: on a source that yields M < N elements before it is exhausted (M = 0
\* included), take_array::<N> and to_array::<N> return Err(TooShort(M, N)).
C2_TooShortPayload ==
    (call.op \in {"take_array", "to_array"} /\ Rem0 < call.n)
        => res = TooShort(Rem0, call.n)

C2_Witness ==
    /\ call.op = "to_array"
    /\ 0 < Rem0
    /\ Rem0 + 1 < call.n
    /\ res.tag = "TooShort"

\* ---- C3 -------------------------------------------------------------------
\* C3: on a source with more than N elements to_array::<N> returns
\* Err(TooLong(N)) and not the array; once take_array has filled the N slots
\* it polls the source exactly once more (N + 1 polls in all), and it returns
\* Ok only if that extra poll found the source exhausted.
C3_TooLong ==
    call.op = "to_array"
        => /\ Rem0 > call.n => (res = TooLong(call.n) /\ res.arr = <<>>)
           /\ Rem0 >= call.n => polls = call.n + 1
           /\ res.tag = "Ok" => (Rem0 = call.n /\ pos = Len(src))

C3_Witness ==
    /\ call.op = "to_array"
    /\ call.n >= 1
    /\ Rem0 > call.n
    /\ res.tag = "TooLong"
    /\ polls = call.n + 1

\* ---- C4 -------------------------------------------------------------------
\* C4: take_array::<N> takes at most N elements out of the source and never
\* returns TooLong; on a source with more than N elements it returns the
\* first N and leaves the source at element N, so the array of a successful
\* call is the window of the source that ends where the next call begins.
C4_TakeLeavesRest ==
    call.op = "take_array"
        => /\ pos - call.pos0 <= call.n
           /\ pos >= call.pos0
           /\ res.tag # "TooLong"
           /\ Rem0 > call.n =>
                /\ res = Ok(Window(call.n))
                /\ pos = call.pos0 + call.n
                /\ SrcNext(pos).some
                /\ SrcNext(pos).val = src[call.pos0 + call.n + 1]
           /\ res.tag = "Ok" =>
                /\ pos = call.pos0 + call.n
                /\ res.arr = SubSeq(src, pos - call.n + 1, pos)

C4_Witness ==
    /\ call.op = "take_array"
    /\ call.pos0 > 0
    /\ call.n >= 1
    /\ Rem0 > call.n
    /\ res.tag = "Ok"
    /\ pos < Len(src)

\* ---- C5 -------------------------------------------------------------------
\* C5: take_array_default::<N> and take_array_pad::<N>(pad) always return a
\* full array: with M elements left in the source, slots 0..min(M, N) hold
\* the source's elements in order and every later slot holds the default
\* value (a clone of pad); on an exhausted source the array is all fill.
C5_TakePadded ==
    call.op \in {"take_array_default", "take_array_pad"}
        => /\ res = Array(Padded(call.n, FillVal))
           /\ Len(res.arr) = call.n
           /\ Rem0 = 0 => \A i \in 1..call.n : res.arr[i] = FillVal

C5_Witness ==
    /\ call.op = "take_array_pad"
    /\ call.pad # DefaultVal
    /\ 0 < Rem0
    /\ Rem0 + 1 < call.n
    /\ res.tag = "Array"
    /\ res.arr[call.n] = call.pad
    /\ res.arr[1] # call.pad

\* ---- C6 -------------------------------------------------------------------
\* C6: to_array_default::<N> and to_array_pad::<N>(pad) return
\* Err(TooLong(N)) exactly when the source has more than N elements; with
\* M <= N elements they return Ok of the padded array; never TooShort.
C6_ToPadded ==
    call.op \in {"to_array_default", "to_array_pad"}
        => /\ (res = TooLong(call.n)) <=> (Rem0 > call.n)
           /\ Rem0 <= call.n => res = Ok(Padded(call.n, FillVal))
           /\ res.tag # "TooShort"

C6_Witness ==
    /\ call.op = "to_array_pad"
    /\ call.pad # DefaultVal
    /\ 0 < Rem0
    /\ Rem0 < call.n
    /\ res.tag = "Ok"
    /\ res.arr[call.n] = call.pad

\* ---- C7 -------------------------------------------------------------------
\* C7 as stated: for every N, take_array_partial::<N> on an exhausted source
\* returns Empty and invokes the padding closure zero times.
C7_Original ==
    (call.op = "take_array_partial" /\ Rem0 = 0)
        => (res = Empty /\ padCalls = 0)

\* C7 amended: on an exhausted source take_array_partial::<N> invokes the
\* padding closure zero times, and returns Empty for every N >= 1; for N = 0
\* it returns Full of the empty array.
C7_EmptyOnExhausted ==
    (call.op = "take_array_partial" /\ Rem0 = 0)
        => /\ padCalls = 0
           /\ call.n >= 1 => res = Empty
           /\ call.n = 0 => res = Full(<<>>)

C7_Witness ==
    /\ call.op = "take_array_partial"
    /\ Rem0 = 0
    /\ call.n >= 2
    /\ res = Empty
    /\ padCalls = 0

\* ---- C8 -------------------------------------------------------------------
\* C8: on a source that yields M elements, 0 < M < N, take_array_partial::<N>
\* returns Partial(array, M): slots 0..M are the source's elements in order,
\* slot M + j is the result of the j-th padding invocation, and there are
\* exactly N - M invocations; on a source with at least N elements it returns
\* Full(first N elements) and the closure is not invoked.
C8_PartialAndFull ==
    call.op = "take_array_partial"
        => /\ (0 < Rem0 /\ Rem0 < call.n) =>
                /\ res.tag = "Partial"
                /\ res.a = Rem0
                /\ Len(res.arr) = call.n
                /\ \A i \in 1..Rem0 : res.arr[i] = src[call.pos0 + i]
                /\ \A j \in 0..(call.n - Rem0 - 1) :
                        res.arr[Rem0 + j + 1] = PadGen(j)
                /\ padCalls = call.n - Rem0
           /\ Rem0 >= call.n =>
                /\ res = Full(Window(call.n))
                /\ padCalls = 0

C8_Witness ==
    /\ call.op = "take_array_partial"
    /\ 0 < Rem0
    /\ Rem0 + 2 <= call.n
    /\ res.tag = "Partial"
    /\ padCalls >= 2

\* ---- C9 -------------------------------------------------------------------
\* the length of the source the ChunksIter was given
ChunkLen == Len(src) - chunkStart
\* ceil(l / n) for n >= 1
CeilDiv(l, n) == (l + n - 1) \div n
\* the number of chunks C9 states, where it states one: 0 for an empty
\* source, ceil(L / N) otherwise
ChunkCount == IF ChunkLen = 0 THEN 0 ELSE CeilDiv(ChunkLen, chunkN)

\* C9: a ChunksIter over a source of length L yields exactly ceil(L / N)
\* chunks when L > 0 and exactly 0 chunks when L = 0: never more than that
\* number, and that number once next has returned None.
C9_ChunkCount ==
    (mode = "chunks" /\ (ChunkLen = 0 \/ chunkN >= 1))
        => /\ Len(chunks) <= ChunkCount
           /\ done => Len(chunks) = ChunkCount

\* ---- C10 ------------------------------------------------------------------
\* C10: the chunk sequence of a ChunksIter over a finite source ends, for
\* every chunk size N: each call of next that returns Some takes at least one
\* element out of the source, so only finitely many calls return Some before
\* one returns None.
C10_Terminates ==
    [][(mode = "chunks" /\ res'.tag = "Some") => pos' > pos]_vars

\* ---- C11 ------------------------------------------------------------------
Min(a, b) == IF a <= b THEN a ELSE b
\* the position in the ChunksIter's source, counted from 1, of slot i
\* (counted from 1) of the j-th chunk (counted from 1)
SlotIndex(j, i) == (j - 1) * chunkN + i

\* C11: the chunks a ChunksIter yields, in order, reproduce its source: slot
\* i of chunk j holds source element j*N + i whenever that is below L; only
\* the last chunk holds padding, it does so only after at least one source
\* element, and its padding slots hold the closure's results in invocation
\* order; what was taken out of the source is what the chunks hold, and once
\* next has returned None that is the whole source.
C11_ChunksReproduceSource ==
    mode = "chunks"
        => /\ \A j \in 1..Len(chunks) : Len(chunks[j]) = chunkN
           /\ \A j \in 1..Len(chunks) : \A i \in 1..chunkN :
                IF SlotIndex(j, i) <= ChunkLen
                THEN chunks[j][i] = src[chunkStart + SlotIndex(j, i)]
                ELSE /\ j = Len(chunks)
                     /\ SlotIndex(j, 1) <= ChunkLen
                     /\ chunks[j][i] = PadGen(SlotIndex(j, i) - ChunkLen - 1)
           /\ pos - chunkStart = Min(ChunkLen, Len(chunks) * chunkN)
           /\ done => Len(chunks) * chunkN >= ChunkLen

C11_Witness ==
    /\ mode = "chunks"
    /\ done
    /\ chunkN >= 2
    /\ Len(chunks) >= 2
    /\ ChunkLen % chunkN # 0
    /\ chunks[Len(chunks)][chunkN] = PadGen(chunkN - (ChunkLen % chunkN) - 1)

\* ---- C12 ------------------------------------------------------------------
\* the last call of next returned a padded chunk: take_array_partial returned
\* Partial, the one outcome in which it invokes the padding closure
YieldedPartial ==
    /\ mode = "chunks"
    /\ call.op = "next"
    /\ res.tag = "Some"
    /\ padCalls > 0

\* C12: a padded chunk is the last one: the call of next that follows it
\* finds the source exhausted on its first poll, takes nothing, does not
\* invoke the padding closure and returns None.
C12_PartialIsFinal ==
    [][YieldedPartial =>
            /\ pos = Len(src)
            /\ res' = None
            /\ done'
            /\ polls' = 1
            /\ pos' = pos
            /\ padCalls' = 0
            /\ padding' = padding
            /\ chunks' = chunks]_vars

C12_Witness ==
    /\ mode = "chunks"
    /\ call.op = "next"
    /\ res = None
    /\ done
    /\ padCalls = 0
    /\ padding > 0
    /\ Len(chunks) >= 1
    /\ chunks[Len(chunks)][chunkN] = PadGen(padding - 1)

\* ---- C13 ------------------------------------------------------------------
\* exactly the first k slots of the staging buffer buf hold a value
InitializedPrefix(buf, k) ==
    \A s \in 1..Len(buf) : buf[s].init <=> (s <= k)

\* C13: at every point of take_array's fill loop the initialized slots of
\* the staging buffer are exactly the prefix [0, k) for the tracked count k;
\* when the loop halts after writing k < N elements, take_array releases the
\* values of slots 0..k, each once and in slot order, and touches no slot
\* from k on.
C13_DropsInitializedPrefix ==
    call.op = "take_array"
        => /\ Len(staging) >= 1
           /\ \A t \in 1..Len(staging) :
                /\ Len(staging[t]) = call.n
                /\ InitializedPrefix(staging[t], t - 1)
           /\ res.tag = "TooShort" =>
                /\ res.a < call.n
                /\ Len(staging) = res.a + 1
                /\ dropped = [j \in 1..res.a |-> src[call.pos0 + j]]
                /\ ~ub
           /\ res.tag = "Ok" => (dropped = <<>> /\ ~ub)

C13_Witness ==
    /\ call.op = "take_array"
    /\ res.tag = "TooShort"
    /\ res.a >= 2
    /\ res.a < call.n
    /\ Len(dropped) = res.a
    /\ dropped[1] # dropped[2]

\* ---- C14 ------------------------------------------------------------------
\* C14: with N = 0 take_array, take_array_default, take_array_pad and
\* take_array_partial return the empty array (in Ok, as the array, in Full)
\* without polling the source or invoking the padding closure, whatever the
\* source still holds.
C14_ZeroSize ==
    call.n = 0
        => /\ call.op \in {"take_array", "take_array_default",
                           "take_array_pad", "take_array_partial"}
                => (polls = 0 /\ padCalls = 0 /\ pos = call.pos0)
           /\ call.op = "take_array" => res = Ok(<<>>)
           /\ call.op \in {"take_array_default", "take_array_pad"}
                => res = Array(<<>>)
           /\ call.op = "take_array_partial" => res = Full(<<>>)

C14_Witness ==
    /\ call.op = "take_array_partial"
    /\ call.n = 0
    /\ Rem0 > 0
    /\ res = Full(<<>>)
    /\ polls = 0
    /\ pos = call.pos0

\* ---- C15 ------------------------------------------------------------------
\* how often the value v occurs in the sequence s
Count(s, v) == Cardinality({i \in 1..Len(s) : s[i] = v})
\* the calls that build an array
BuildOps ==
    {"take_array", "to_array", "take_array_partial", "take_array_default",
     "to_array_default", "take_array_pad", "to_array_pad", "next"}
\* the values the last call took out of the source
FromSource == SubSeq(src, call.pos0 + 1, pos)
\* the values the padding closure returned to the last call
FromPadding ==
    LET k0 == IF call.op = "next" THEN padding - padCalls ELSE 0
    IN [j \in 1..padCalls |-> PadGen(k0 + j - 1)]
\* the values the last call made with Default::default() or pad.clone(): one
\* for each of the N slots the source did not fill
FromFill ==
    IF call.op \in {"take_array_default", "to_array_default",
                    "take_array_pad", "to_array_pad"}
    THEN [j \in 1..(call.n - Min(call.n, Rem0)) |-> FillVal]
    ELSE <<>>
\* the pad argument, owned by the call
FromPadArg ==
    IF call.op \in {"take_array_pad", "to_array_pad"}
    THEN <<call.pad>> ELSE <<>>
\* every value the last call came to own
Obtained == FromSource \o FromPadding \o FromFill \o FromPadArg

\* C15: every value a call obtained (from the source, from the padding
\* closure, from Default::default() or pad.clone(), or as its pad argument)
\* is an element of the array it returned or was released exactly once, and
\* no uninitialized slot was read or released; on to_array's TooLong path
\* the N elements of the array and the extra polled element are released.
C15_OwnershipConserved ==
    call.op \in BuildOps
        => /\ \A v \in {Obtained[i] : i \in 1..Len(Obtained)}
                   \cup {res.arr[i] : i \in 1..Len(res.arr)}
                   \cup {dropped[i] : i \in 1..Len(dropped)} :
                Count(Obtained, v) = Count(res.arr, v) + Count(dropped, v)
           /\ Len(Obtained) = Len(res.arr) + Len(dropped)
           /\ ~ub
           /\ (call.op = "to_array" /\ res.tag = "TooLong") =>
                /\ Len(dropped) = call.n + 1
                /\ \A v \in Elems :
                     Count(dropped, v) = Count(Window(call.n + 1), v)

C15_Witness ==
    /\ call.op = "to_array"
    /\ res.tag = "TooLong"
    /\ call.n >= 2
    /\ Len(dropped) = call.n + 1
    /\ \E i, j \in 1..Len(dropped) : dropped[i] # dropped[j]

\* ---- C16 ------------------------------------------------------------------
\* C16: take_array_default::<N> and take_array_pad::<N> poll the source
\* exactly N times on every call, whatever its length: with M < N elements
\* left, N - M of the polls come at or after exhaustion; slot i is filled
\* from the i-th poll, with the source's value if that poll yielded one and
\* with the default (a clone of pad) otherwise.
C16_PollsEverySlot ==
    call.op \in {"take_array_default", "take_array_pad"}
        => /\ polls = call.n
           /\ pos - call.pos0 = Min(call.n, Rem0)
           /\ Rem0 < call.n => polls - (pos - call.pos0) = call.n - Rem0
           /\ \A i \in 1..call.n :
                res.arr[i] = IF SrcNext(call.pos0 + i - 1).some
                             THEN SrcNext(call.pos0 + i - 1).val
                             ELSE FillVal

C16_Witness ==
    /\ call.op = "take_array_default"
    /\ call.pos0 = Len(src)
    /\ Len(src) > 0
    /\ call.n >= 2
    /\ polls = call.n
    /\ res.arr[call.n] = DefaultVal

\* ---- C17 ------------------------------------------------------------------
\* C17: take_array::<N> and take_array_partial::<N> (also when called by
\* ChunksIter::next) poll the source exactly min(N, M + 1) times when it has
\* M elements left: N polls and no look-ahead when they fill the array,
\* k + 1 polls when they halt at k < N; every Partial(array, k) that
\* take_array_partial returns has 0 < k < N.
C17_PollAccounting ==
    call.op \in {"take_array", "take_array_partial", "next"}
        => /\ polls = Min(call.n, Rem0 + 1)
           /\ Rem0 >= call.n => (polls = call.n /\ pos = call.pos0 + call.n)
           /\ Rem0 < call.n => (polls = Rem0 + 1 /\ pos = Len(src))
           /\ res.tag = "Partial" => (0 < res.a /\ res.a < call.n)
           /\ res.tag = "TooShort" => polls = res.a + 1

C17_Witness ==
    /\ call.op = "take_array_partial"
    /\ res.tag = "Partial"
    /\ res.a + 1 < call.n
    /\ polls = res.a + 1
    /\ polls < call.n

====
